---------------------------- MODULE Spec2Model ----------------------------
(***************************************************************************)
(* A model of the hazo_config providers:                                   *)
(*   HazoConfig          src/src/lib/config-loader.ts                      *)
(*   MockConfigProvider  src/src/lib/mock_config_provider.ts               *)
(*                                                                         *)
(* A store is a JavaScript object used as a map: section -> key -> value,  *)
(* the values being JavaScript values (strings, as far as the code keeps   *)
(* them so).                                                               *)
(* It is modelled by its OWN properties (a TLA+ function); a property read *)
(* that misses the own properties continues on the prototype chain, as     *)
(* obj[name] does in the source.                                           *)
(*                                                                         *)
(* The backing file is a sequence of INI lines.  The codec is the `ini`    *)
(* package (README: "ini": "^4.0.0"), called as                            *)
(*   ini.stringify(this.config, { section: '[', whitespace: true })        *)
(*   ini.parse(content)                                                    *)
(* and modelled by what those two calls do.                                *)
(***************************************************************************)
EXTENDS Integers, Sequences, FiniteSets, TLC

VARIABLES
    disk,           \* the backing file: exists, lines, canRead, canWrite
    prov,           \* provider id -> [live, config, filePath]
    active,         \* the provider ids this run exercises
    ObjectStatics,  \* own properties the program has put on the global Object function
    last,           \* the last operation: who, what, arguments, result, error
    held,           \* the object the caller holds: last returned by an accessor, or
                    \* last passed to the MockConfigProvider as its data
    steps,          \* operations performed so far
    ui              \* the React state of the ConfigViewer and the ConfigEditor

vars == <<disk, prov, active, ObjectStatics, last, held, steps, ui>>

(***************************************************************************)
(* Bounds and input sets                                                   *)
(***************************************************************************)
MaxSteps == 4

\* Section and key names the callers use.  "constructor" and "__proto__" are
\* ordinary strings to the callers; "[" only ever appears through the codec.
Sections == {"A", "B", "constructor"}
Keys == {"x", "y", "__proto__"}
Values == {"1", "2"}

HazoIds == {"h1", "h2"}
MockId == "m"

(***************************************************************************)
(* JavaScript values                                                       *)
(***************************************************************************)
Undefined == [t |-> "undefined", v |-> ""]
Str(s) == [t |-> "string", v |-> s]
Bool(s) == [t |-> "boolean", v |-> s]
Null == [t |-> "object", v |-> "null"]
Fn(n) == [t |-> "function", v |-> n]
Builtin(n) == [t |-> "object", v |-> n]

EmptyMap == [n \in {} |-> ""]
EmptyStore == [n \in {} |-> EmptyMap]

HasOwn(o, n) == n \in DOMAIN o

\* o[n] = value on a plain object: creates or replaces the own property n,
\* except that assigning a string to "__proto__" goes to the inherited
\* setter, which ignores non-object values.
Assign(o, n, value) ==
    IF n = "__proto__" THEN o
    ELSE [m \in DOMAIN o \cup {n} |-> IF m = n THEN value ELSE o[m]]

\* A member of Object.prototype, reached from any plain object ({}).
ObjectPrototypeMember(n) ==
    CASE n = "constructor" -> Fn("Object")
      [] n = "__proto__" -> Builtin("Object.prototype")
      [] OTHER -> Undefined

\* Object[n]: a property read on the global Object function.
ObjectFunctionMember(n) ==
    CASE HasOwn(ObjectStatics, n) -> ObjectStatics[n]
      [] n = "constructor" -> Fn("Function")
      [] n = "__proto__" -> Builtin("Function.prototype")
      [] OTHER -> Undefined

(***************************************************************************)
(* The accessors shared by both providers                                  *)
(***************************************************************************)

\* return this.config[section]?.[key]
get(c, section, key) ==
    IF HasOwn(c, section)
    THEN IF HasOwn(c[section], key) THEN c[section][key]
         ELSE ObjectPrototypeMember(key)
    ELSE IF section = "constructor" THEN ObjectFunctionMember(key)
    ELSE Undefined

\* Mutant: a get that looks at own properties only.
mock_get_own(c, section, key) ==
    IF HasOwn(c, section) /\ HasOwn(c[section], key) THEN c[section][key] ELSE Undefined

\* Mutant: return this.config[section] itself, without the spread copy.
getSection_no_copy(c, section) ==
    IF HasOwn(c, section)
    THEN [t |-> "map", m |-> c[section], alias |-> {<<"section", section>>}]
    ELSE IF section = "constructor"
    THEN [t |-> "map", m |-> ObjectStatics, alias |-> {}]
    ELSE [t |-> "undefined", m |-> EmptyMap, alias |-> {}]

\* return this.config[section] ? { ...this.config[section] } : undefined
\* alias: the internal objects the returned map shares storage with.
getSection(c, section) ==
    IF HasOwn(c, section)
    THEN [t |-> "map", m |-> c[section], alias |-> {}]
    ELSE IF section = "constructor"
    THEN [t |-> "map", m |-> ObjectStatics, alias |-> {}]
    ELSE [t |-> "undefined", m |-> EmptyMap, alias |-> {}]

\* for (const [section, values] of Object.entries(this.config))
\*     result[section] = { ...values }
getAllSections(c) ==
    [t |-> "store", m |-> [s \in DOMAIN c |-> c[s]], alias |-> {}]

\* if (!this.config[section]) this.config[section] = {}
\* this.config[section][key] = value
\* The result is the store and the Object function's own properties.
set(c, section, key, value) ==
    IF HasOwn(c, section)
    THEN [config |-> [c EXCEPT ![section] = Assign(c[section], key, value)],
          statics |-> ObjectStatics]
    ELSE IF section = "constructor"
    THEN [config |-> c, statics |-> Assign(ObjectStatics, key, value)]
    ELSE [config |-> Assign(c, section, Assign(EmptyMap, key, value)),
          statics |-> ObjectStatics]

(***************************************************************************)
(* The INI codec                                                           *)
(***************************************************************************)

\* A line of the file: a section header holding the dot-separated parts of
\* its name, or a key = value line holding the value's text.
SectionLine(path) == [kind |-> "section", path |-> path, key |-> "", raw |-> ""]
KvLine(key, raw) == [kind |-> "kv", path |-> <<>>, key |-> key, raw |-> raw]

RECURSIVE SeqOfSet(_)
SeqOfSet(S) ==
    IF S = {} THEN <<>>
    ELSE LET e == CHOOSE e \in S : TRUE IN <<e>> \o SeqOfSet(S \ {e})

\* The `section` option of ini.stringify: the name of the first section of
\* the output, under which every section of the object is nested
\* ("[" + "." + name).
StringifySection == <<"[">>

\* The text ini.encode writes for a value.
safe(val) == val.v

\* ini.encode of one section object: its key = value lines under a header,
\* and nothing at all when the object has no keys
\* (if (opt.section && out.length) out = '[' + section + ']' + eol + out).
EncodeSection(path, m) ==
    IF DOMAIN m = {} THEN <<>>
    ELSE <<SectionLine(path)>> \o
         [i \in 1..Cardinality(DOMAIN m) |->
            KvLine(SeqOfSet(DOMAIN m)[i], safe(m[SeqOfSet(DOMAIN m)[i]]))]

RECURSIVE EncodeChildren(_, _)
EncodeChildren(c, names) ==
    IF names = <<>> THEN <<>>
    ELSE EncodeSection(StringifySection \o <<Head(names)>>, c[Head(names)])
         \o EncodeChildren(c, Tail(names))

\* ini.stringify(this.config, { section: '[', whitespace: true })
stringify(c) == EncodeChildren(c, SeqOfSet(DOMAIN c))

\* ini.parse turns the texts true, false and null into the JSON values.
Coerce(text) ==
    CASE text \in {"true", "false"} -> Bool(text)
      [] text = "null" -> Null
      [] OTHER -> Str(text)

\* ini.parse, first pass: walk the lines; a header opens (or reopens) the
\* section named by the whole header, a key = value line lands in the open
\* section, or at top level before any header.  "__proto__" keys are skipped.
ParseStart == [order |-> <<>>, scal |-> EmptyMap, secs |-> EmptyMap, cur |-> <<>>]

RECURSIVE ParseLines(_, _, _)
ParseLines(lines, i, acc) ==
    IF i > Len(lines) THEN acc
    ELSE LET ln == lines[i] IN
      IF ln.kind = "section"
      THEN ParseLines(lines, i + 1,
             [order |-> IF ln.path \in DOMAIN acc.secs THEN acc.order
                        ELSE Append(acc.order, ln.path),
              scal |-> acc.scal,
              secs |-> IF ln.path \in DOMAIN acc.secs THEN acc.secs
                       ELSE acc.secs @@ (ln.path :> EmptyMap),
              cur |-> ln.path])
      ELSE IF ln.key = "__proto__" THEN ParseLines(lines, i + 1, acc)
      ELSE IF acc.cur = <<>>
      THEN ParseLines(lines, i + 1,
             [acc EXCEPT !.order = IF ln.key \in DOMAIN acc.scal THEN @
                                   ELSE Append(@, <<ln.key>>),
                         !.scal = (ln.key :> Coerce(ln.raw)) @@ @])
      ELSE ParseLines(lines, i + 1,
             [acc EXCEPT !.secs = (acc.cur :> ((ln.key :> Coerce(ln.raw)) @@ @[acc.cur])) @@ @])

\* ini.parse, second pass: a section whose name has two parts a.b is moved
\* under the top-level entry a, which is created (at the end) when it is not
\* already an object.  (Names of this model have at most two parts.)
TopOrder(acc) ==
    LET ones == SelectSeq(acc.order, LAMBDA p : Len(p) = 1)
        twos == SelectSeq(acc.order, LAMBDA p : Len(p) = 2)
        parents == {p[1] : p \in {q \in DOMAIN acc.secs : Len(q) = 2}}
        fresh == {a \in parents : \A i \in 1..Len(ones) : ones[i] # <<a>>}
        firstOf(a) == CHOOSE i \in 1..Len(twos) :
                         /\ twos[i][1] = a
                         /\ \A j \in 1..(i - 1) : twos[j][1] # a
        created == SelectSeq(twos, LAMBDA p :
                         p[1] \in fresh /\ p = twos[firstOf(p[1])])
    IN [i \in 1..Len(ones) |-> ones[i][1]] \o [i \in 1..Len(created) |-> created[i][1]]

ParsedNode(acc, a) ==
    LET kids == {p[2] : p \in {q \in DOMAIN acc.secs : Len(q) = 2 /\ q[1] = a}} IN
    IF <<a>> \in DOMAIN acc.secs \/ kids # {}
    THEN [t |-> "object", v |-> Undefined,
          own |-> IF <<a>> \in DOMAIN acc.secs THEN acc.secs[<<a>>] ELSE EmptyMap,
          kids |-> [b \in kids |-> acc.secs[<<a, b>>]]]
    ELSE [t |-> "scalar", v |-> acc.scal[a], own |-> EmptyMap, kids |-> EmptyMap]

\* ini.parse, second pass, on a section a.b whose parent entry a is the
\* top-level scalar null: typeof null is 'object', so the entry is kept as the
\* parent and the assignment p[b] = ... on it throws a TypeError.
ParseThrows(acc) ==
    \E q \in DOMAIN acc.secs :
        /\ Len(q) = 2
        /\ <<q[1]>> \notin DOMAIN acc.secs
        /\ q[1] \in DOMAIN acc.scal
        /\ acc.scal[q[1]] = Null

\* ini.parse(content): the top-level entries in insertion order, or threw.
parse(lines) ==
    LET acc == ParseLines(lines, 1, ParseStart) IN
    [order |-> TopOrder(acc),
     val |-> [a \in {TopOrder(acc)[i] : i \in 1..Len(TopOrder(acc))} |-> ParsedNode(acc, a)],
     threw |-> ParseThrows(acc)]

(***************************************************************************)
(* File paths.  A path is absolute or relative to the working directory;   *)
(* the one file of the model lives at DiskPath.                            *)
(***************************************************************************)
Cwd == <<"srv">>
DiskPath == [abs |-> TRUE, parts |-> <<"srv", "app.ini">>]
NoPath == [abs |-> FALSE, parts |-> <<>>]
\* The options.filePath values the callers pass: both name the file.
OptionPaths == {DiskPath, [abs |-> FALSE, parts |-> <<"app.ini">>]}

\* Mutant: this.filePath = options.filePath
resolve_omitted(path) == path

\* path.resolve(options.filePath)
resolve(path) == IF path.abs THEN path ELSE [abs |-> TRUE, parts |-> Cwd \o path.parts]

\* The file an fs call reaches when given path (fs resolves a relative path
\* against the working directory itself).
fsResolve(path) == IF path.abs THEN path ELSE [abs |-> TRUE, parts |-> Cwd \o path.parts]

\* return this.filePath
getFilePath(inst) == inst.filePath

(***************************************************************************)
(* HazoConfig: refresh, save, constructor                                  *)
(***************************************************************************)
NoError == [code |-> "", fields |-> {}]
\* const error: any = new Error(...); error.code = EC.FILE_NOT_FOUND
FileNotFoundError == [code |-> "HAZO_CONFIG_FILE_NOT_FOUND", fields |-> {"message", "code"}]
\* configError.code = EC.PARSE_ERROR; configError.originalError = error
ParseError == [code |-> "HAZO_CONFIG_PARSE_ERROR",
               fields |-> {"message", "code", "originalError"}]
\* configError.code = EC.WRITE_ERROR; configError.originalError = error
WriteError == [code |-> "HAZO_CONFIG_WRITE_ERROR",
               fields |-> {"message", "code", "originalError"}]

\* fs.readFileSync(this.filePath, 'utf-8')
readFileSync(d) ==
    CASE ~d.exists -> [errno |-> "ENOENT", lines |-> <<>>]
      [] ~d.canRead -> [errno |-> "EACCES", lines |-> <<>>]
      [] OTHER -> [errno |-> "", lines |-> d.lines]

\* Mutant: the codec's leaf is cached as it is, without String().
String_omitted(value) == value

\* String(value) on a leaf the codec produced: the string of its text
String(value) == Str(value.v)

\* Mutant: a conversion loop without the typeof test, which makes a section
\* of every top-level entry.
RECURSIVE ConvertFrom_keeps_scalars(_, _, _)
ConvertFrom_keeps_scalars(parsed, i, c) ==
    IF i > Len(parsed.order) THEN [config |-> c, threw |-> FALSE]
    ELSE LET name == parsed.order[i]
             node == parsed.val[name]
             sec == [k \in DOMAIN node.own |-> String(node.own[k])]
             c2 == [s \in DOMAIN c \cup {name} |-> IF s = name THEN sec ELSE c[s]]
         IN IF DOMAIN node.kids # {} THEN [config |-> c2, threw |-> TRUE]
            ELSE ConvertFrom_keeps_scalars(parsed, i + 1, c2)

\* The conversion loop of refresh, from top-level entry i on:
\*   this.config[section] = {}
\*   for (const [key, value] of Object.entries(values))
\*       this.config[section][key] = String(value)
\* A top-level scalar is skipped.  A nested object among the values (ini
\* builds them with Object.create(null)) makes String(value) throw a
\* TypeError, after the scalar keys that precede it were stored.
RECURSIVE ConvertFrom(_, _, _)
ConvertFrom(parsed, i, c) ==
    IF i > Len(parsed.order) THEN [config |-> c, threw |-> FALSE]
    ELSE LET name == parsed.order[i]
             node == parsed.val[name]
             sec == [k \in DOMAIN node.own |-> String(node.own[k])]
             c2 == [s \in DOMAIN c \cup {name} |-> IF s = name THEN sec ELSE c[s]]
         IN IF node.t # "object" THEN ConvertFrom(parsed, i + 1, c)
            ELSE IF DOMAIN node.kids # {} THEN [config |-> c2, threw |-> TRUE]
            ELSE ConvertFrom(parsed, i + 1, c2)

\* Mutant: the catch block without its ENOENT branch.
refresh_no_enoent_branch(c, d) ==
    LET rd == readFileSync(d)
        conv == ConvertFrom(parse(rd.lines), 1, EmptyStore)
    IN CASE rd.errno # "" -> [config |-> c, err |-> ParseError, io |-> <<"readFileSync">>]
         [] parse(rd.lines).threw ->
              [config |-> c, err |-> ParseError, io |-> <<"readFileSync">>]
         [] conv.threw -> [config |-> conv.config, err |-> ParseError, io |-> <<"readFileSync">>]
         [] OTHER -> [config |-> conv.config, err |-> NoError, io |-> <<"readFileSync">>]

\* Mutant: the catch block logs and returns instead of throwing.
refresh_swallows_failure(c, d) ==
    LET rd == readFileSync(d)
        conv == ConvertFrom(parse(rd.lines), 1, EmptyStore)
    IN CASE rd.errno = "ENOENT" ->
              [config |-> c, err |-> FileNotFoundError, io |-> <<"readFileSync">>]
         [] rd.errno # "" -> [config |-> c, err |-> ParseError, io |-> <<"readFileSync">>]
         [] parse(rd.lines).threw -> [config |-> c, err |-> NoError, io |-> <<"readFileSync">>]
         [] conv.threw -> [config |-> conv.config, err |-> NoError, io |-> <<"readFileSync">>]
         [] OTHER -> [config |-> conv.config, err |-> NoError, io |-> <<"readFileSync">>]

\* refresh(): the cache and the error it leaves.  ini.parse runs before
\* this.config = {}, so a throw of the codec leaves the cache as it was.
refresh(c, d) ==
    LET rd == readFileSync(d)
        conv == ConvertFrom(parse(rd.lines), 1, EmptyStore)
    IN CASE rd.errno = "ENOENT" ->
              [config |-> c, err |-> FileNotFoundError, io |-> <<"readFileSync">>]
         [] rd.errno # "" -> [config |-> c, err |-> ParseError, io |-> <<"readFileSync">>]
         [] parse(rd.lines).threw ->
              [config |-> c, err |-> ParseError, io |-> <<"readFileSync">>]
         [] conv.threw -> [config |-> conv.config, err |-> ParseError, io |-> <<"readFileSync">>]
         [] OTHER -> [config |-> conv.config, err |-> NoError, io |-> <<"readFileSync">>]

\* Mutant: the write failure is logged but not rethrown.
save_swallows_failure(c, d) ==
    IF d.canWrite
    THEN [disk |-> [d EXCEPT !.exists = TRUE, !.lines = stringify(c)], err |-> NoError,
          io |-> <<"writeFileSync">>]
    ELSE [disk |-> d, err |-> NoError, io |-> <<"writeFileSync">>]

\* Mutant: a save that adds its lines to those the file already holds.
save_merges(c, d) ==
    IF d.canWrite
    THEN [disk |-> [d EXCEPT !.exists = TRUE, !.lines = d.lines \o stringify(c)],
          err |-> NoError, io |-> <<"writeFileSync">>]
    ELSE [disk |-> d, err |-> WriteError, io |-> <<"writeFileSync">>]

\* save(): the file and the error it leaves.
save(c, d) ==
    IF d.canWrite
    THEN [disk |-> [d EXCEPT !.exists = TRUE, !.lines = stringify(c)], err |-> NoError,
          io |-> <<"writeFileSync">>]
    ELSE [disk |-> d, err |-> WriteError, io |-> <<"writeFileSync">>]

\* Mutant: the constructor without its fs.existsSync check.
construct_no_exists_check(d) ==
    LET r == refresh(EmptyStore, d) IN
    [live |-> r.err = NoError,
     config |-> IF r.err = NoError THEN r.config ELSE EmptyStore,
     err |-> r.err, io |-> r.io]

\* Mutant: a constructor that catches the failure of its initial refresh
\* and returns the instance.
construct_swallows_failure(d) ==
    IF ~d.exists
    THEN [live |-> FALSE, config |-> EmptyStore, err |-> FileNotFoundError,
          io |-> <<"existsSync">>]
    ELSE LET r == refresh(EmptyStore, d) IN
         [live |-> TRUE, config |-> r.config, err |-> NoError,
          io |-> <<"existsSync">> \o r.io]

\* new HazoConfig({ filePath }): no instance unless the file exists and the
\* initial refresh succeeds.
construct(d) ==
    IF ~d.exists
    THEN [live |-> FALSE, config |-> EmptyStore, err |-> FileNotFoundError,
          io |-> <<"existsSync">>]
    ELSE LET r == refresh(EmptyStore, d) IN
         [live |-> r.err = NoError,
          config |-> IF r.err = NoError THEN r.config ELSE EmptyStore,
          err |-> r.err, io |-> <<"existsSync">> \o r.io]

(***************************************************************************)
(* MockConfigProvider                                                      *)
(***************************************************************************)

\* return this.config[section]?.[key]
mock_get(c, section, key) ==
    IF HasOwn(c, section)
    THEN IF HasOwn(c[section], key) THEN c[section][key]
         ELSE ObjectPrototypeMember(key)
    ELSE IF section = "constructor" THEN ObjectFunctionMember(key)
    ELSE Undefined

\* return this.config[section] ? { ...this.config[section] } : undefined
mock_getSection(c, section) ==
    IF HasOwn(c, section)
    THEN [t |-> "map", m |-> c[section], alias |-> {}]
    ELSE IF section = "constructor"
    THEN [t |-> "map", m |-> ObjectStatics, alias |-> {}]
    ELSE [t |-> "undefined", m |-> EmptyMap, alias |-> {}]

\* result[section] = { ...values } for every section
mock_getAllSections(c) ==
    [t |-> "store", m |-> [s \in DOMAIN c |-> c[s]], alias |-> {}]

\* if (!this.config[section]) this.config[section] = {}
\* this.config[section][key] = value
mock_set(c, section, key, value) ==
    IF HasOwn(c, section)
    THEN [config |-> [c EXCEPT ![section] = Assign(c[section], key, value)],
          statics |-> ObjectStatics]
    ELSE IF section = "constructor"
    THEN [config |-> c, statics |-> Assign(ObjectStatics, key, value)]
    ELSE [config |-> Assign(c, section, Assign(EmptyMap, key, value)),
          statics |-> ObjectStatics]

\* save(): no-op
mock_save(c) == c

\* Mutant: a refresh that reloads an empty store.
mock_refresh_clears(c) == EmptyStore

\* refresh(): no-op
mock_refresh(c) == c

\* Mutant: this.config = data, the caller's own object.
JsonCopy_by_reference(data) == [config |-> data, alias |-> {<<"store">>}]

\* JSON.parse(JSON.stringify(data)): a deep copy of a section -> key -> string
\* map.  alias: what the new store shares storage with in the caller's data.
JsonCopy(data) ==
    [config |-> [s \in DOMAIN data |-> [k \in DOMAIN data[s] |-> data[s][k]]],
     alias |-> {}]

\* this.config = {}
FreshStore == [config |-> EmptyStore, alias |-> {}]

\* constructor(initial_config?): given is FALSE when the argument is omitted
mock_construct(given, initial_config) ==
    IF given THEN JsonCopy(initial_config) ELSE FreshStore

\* Mutant: reset that always empties the store.
mock_reset_ignores_argument(given, new_config) == FreshStore

\* reset(new_config?): given is FALSE when the argument is omitted
mock_reset(given, new_config) ==
    IF given THEN JsonCopy(new_config) ELSE FreshStore

(***************************************************************************)
(* The state machine                                                       *)
(***************************************************************************)
AllIds == HazoIds \cup {MockId}
IsHazo(p) == p \in HazoIds

File(lines) == [exists |-> TRUE, lines |-> lines, canRead |-> TRUE, canWrite |-> TRUE]
NoFile == [exists |-> FALSE, lines |-> <<>>, canRead |-> TRUE, canWrite |-> TRUE]

\* The files a run may start from.
InitFiles ==
    { <<>>,
      <<SectionLine(<<"A">>), KvLine("x", "1")>>,
      <<SectionLine(<<"A">>), KvLine("x", "1"), SectionLine(<<"B">>), KvLine("y", "2")>>,
      <<SectionLine(<<"A">>)>>,
      <<KvLine("y", "2"), SectionLine(<<"A">>), KvLine("x", "true")>>,
      <<SectionLine(<<"A">>), KvLine("x", "1"), SectionLine(<<"A", "B">>), KvLine("y", "2")>>,
      <<KvLine("A", "null"), SectionLine(<<"A", "B">>), KvLine("y", "2")>> }

\* The data a MockConfigProvider may be seeded with.
Seeds ==
    { EmptyStore,
      ("A" :> ("x" :> Str("1"))),
      ("A" :> ("x" :> Str("1"))) @@ ("B" :> ("y" :> Str("2"))),
      ("A" :> EmptyMap) }

NoRet == [t |-> "none", m |-> EmptyMap, alias |-> {}]
\* An object the caller holds: returned by an accessor (from = "accessor") or
\* passed to the MockConfigProvider's constructor or reset (from = "argument").
NoHeld == [by |-> "", s |-> "", t |-> "none", m |-> EmptyMap, alias |-> {}, from |-> ""]
Held(by, s, from, r) ==
    [by |-> by, s |-> s, t |-> r.t, m |-> r.m, alias |-> r.alias, from |-> from]
\* The data argument of a call (constructor, reset) and the sections the store
\* held when the call was made.
NoArg == [given |-> FALSE, data |-> EmptyStore, before |-> {}]
\* The useState initial values of the two components:
\*   ConfigViewer: sections {}, editing null, edit_value ''
\*   ConfigEditor: sections {}, selected_section null, new_key '', new_value ''
\* (null is written as on = FALSE, resp. as the empty name); saved: whether
\* a handler of either component has called save().
NoEditing == [on |-> FALSE, section |-> "", key |-> ""]
NoUi ==
    [viewer |-> [sections |-> EmptyStore, editing |-> NoEditing, edit_value |-> Str("")],
     editor |-> [sections |-> EmptyStore, selected_section |-> "", new_key |-> "",
                 new_value |-> ""],
     saved |-> FALSE]
\* The same call on a second HazoConfig over the same file, constructed
\* without a logger: its error, the logger calls it made, the file it left.
NoTwin == [err |-> [code |-> "", fields |-> {}], log |-> <<>>,
           disk |-> [exists |-> FALSE, lines |-> <<>>, canRead |-> TRUE, canWrite |-> TRUE]]
\* What a second provider returned for the same call (lockstep runs).
NoPeer == [val |-> Undefined, ret |-> NoRet]
Op(by, op, s, k, v, val, ret, err) ==
    [by |-> by, op |-> op, s |-> s, k |-> k, v |-> v, val |-> val, ret |-> ret,
     err |-> err, io |-> <<>>, arg |-> NoArg, was |-> <<>>, path |-> NoPath,
     peer |-> NoPeer, calls |-> <<>>, log |-> <<>>, twin |-> NoTwin]
\* An operation that touches the file system: io names the fs calls it made,
\* in order (was: the lines the file held before a save; path: the path the
\* fs calls were given).
IoOp(by, op, err, io) ==
    [Op(by, op, "", "", "", Undefined, NoRet, err) EXCEPT !.io = io]
Called(io, name) == \E i \in 1..Len(io) : io[i] = name

Dead == [live |-> FALSE, config |-> EmptyStore, filePath |-> NoPath]

\* What the fs calls on path see of the file system d, and the file system
\* after a call on path left newd there.
FileAt(path, d) == IF fsResolve(path) = DiskPath THEN d ELSE NoFile
WriteBack(path, d, newd) == IF fsResolve(path) = DiskPath THEN newd ELSE d

InitCommon ==
    /\ prov = [p \in AllIds |-> Dead]
    /\ ObjectStatics = EmptyMap
    /\ last = Op("", "init", "", "", "", Undefined, NoRet, NoError)
    /\ held = NoHeld
    /\ steps = 0
    /\ ui = NoUi

\* One provider is exercised per run: a HazoConfig over the file, or a
\* MockConfigProvider, which has no file.
Init ==
    /\ InitCommon
    /\ active \in {{"h1"}, {MockId}}
    /\ disk \in IF active = {MockId} THEN {NoFile}
                ELSE {File(f) : f \in InitFiles} \cup {NoFile}

Step == steps < MaxSteps /\ steps' = steps + 1

\* The object the caller holds after provider p's store became newc by an
\* assignment into it: the held object shows the change where it shares
\* storage with the store.
Tracks(h, p, newc) ==
    CASE h.by = p /\ h.t = "store" /\ <<"store">> \in h.alias -> [h EXCEPT !.m = newc]
      [] h.by = p /\ h.t = "map" /\ <<"section", h.s>> \in h.alias /\ HasOwn(newc, h.s) ->
            [h EXCEPT !.m = newc[h.s]]
      [] OTHER -> h

\* The object the caller holds after provider p replaced its store by a new
\* object (this.config = ...): nothing is shared any more.
Detached(h, p) == IF h.by = p THEN [h EXCEPT !.alias = {}] ELSE h
Live(p) == p \in active /\ prov[p].live

\* new HazoConfig({ filePath })
HazoConstruct(p) ==
    /\ Step /\ p \in active /\ IsHazo(p) /\ ~prov[p].live
    /\ \E filePath \in OptionPaths :
         LET path == resolve(filePath)
             r == construct(FileAt(path, disk)) IN
         /\ prov' = [prov EXCEPT ![p] = [live |-> r.live, config |-> r.config,
                                         filePath |-> IF r.live THEN path ELSE NoPath]]
         /\ last' = [IoOp(p, "construct", r.err, r.io) EXCEPT !.path = path]
    /\ UNCHANGED <<ui, disk, active, ObjectStatics, held>>

\* new MockConfigProvider(initial_config?)
MockConstruct(p) ==
    /\ Step /\ p \in active /\ ~IsHazo(p) /\ ~prov[p].live
    /\ \E given \in BOOLEAN, seed \in Seeds :
         LET r == mock_construct(given, seed) IN
         /\ given \/ seed = EmptyStore
         /\ prov' = [prov EXCEPT ![p] = [live |-> TRUE, config |-> r.config,
                                         filePath |-> NoPath]]
         /\ last' = [Op(p, "construct", "", "", "", Undefined, NoRet, NoError)
                       EXCEPT !.arg = [given |-> given, data |-> seed, before |-> {}]]
         /\ held' = IF given
                    THEN Held(p, "", "argument", [t |-> "store", m |-> seed, alias |-> r.alias])
                    ELSE held
    /\ UNCHANGED <<ui, disk, active, ObjectStatics>>

Get(p) ==
    /\ Step /\ Live(p)
    /\ \E s \in Sections, k \in Keys :
         last' = Op(p, "get", s, k, "",
                    IF IsHazo(p) THEN get(prov[p].config, s, k)
                    ELSE mock_get(prov[p].config, s, k),
                    NoRet, NoError)
    /\ UNCHANGED <<ui, disk, prov, active, ObjectStatics, held>>

\* getFilePath() of a HazoConfig
GetFilePath(p) ==
    /\ Step /\ Live(p) /\ IsHazo(p)
    /\ last' = [Op(p, "getFilePath", "", "", "", Undefined, NoRet, NoError)
                  EXCEPT !.path = getFilePath(prov[p])]
    /\ UNCHANGED <<ui, disk, prov, active, ObjectStatics, held>>

GetSection(p) ==
    /\ Step /\ Live(p)
    /\ \E s \in Sections :
         LET r == IF IsHazo(p) THEN getSection(prov[p].config, s)
                  ELSE mock_getSection(prov[p].config, s) IN
         /\ last' = Op(p, "getSection", s, "", "", Undefined, r, NoError)
         /\ held' = Held(p, s, "accessor", r)
    /\ UNCHANGED <<ui, disk, prov, active, ObjectStatics>>

GetAllSections(p) ==
    /\ Step /\ Live(p)
    /\ LET r == IF IsHazo(p) THEN getAllSections(prov[p].config)
                ELSE mock_getAllSections(prov[p].config) IN
         /\ last' = Op(p, "getAllSections", "", "", "", Undefined, r, NoError)
         /\ held' = Held(p, "", "accessor", r)
    /\ UNCHANGED <<ui, disk, prov, active, ObjectStatics>>

\* Mutant: a set that also writes the file.
Set_write_through(p) ==
    /\ Step /\ Live(p)
    /\ \E s \in Sections, k \in Keys, v \in Values :
         LET r == IF IsHazo(p) THEN set(prov[p].config, s, k, Str(v))
                  ELSE mock_set(prov[p].config, s, k, Str(v)) IN
         /\ prov' = [prov EXCEPT ![p].config = r.config]
         /\ ObjectStatics' = r.statics
         /\ last' = Op(p, "set", s, k, v, Undefined, NoRet, NoError)
         /\ held' = Tracks(held, p, r.config)
         /\ disk' = IF IsHazo(p)
                    THEN WriteBack(prov[p].filePath, disk,
                                   save(r.config, FileAt(prov[p].filePath, disk)).disk)
                    ELSE disk
    /\ UNCHANGED <<ui, active>>

Set(p) ==
    /\ Step /\ Live(p)
    /\ \E s \in Sections, k \in Keys, v \in Values :
         LET r == IF IsHazo(p) THEN set(prov[p].config, s, k, Str(v))
                  ELSE mock_set(prov[p].config, s, k, Str(v)) IN
         /\ prov' = [prov EXCEPT ![p].config = r.config]
         /\ ObjectStatics' = r.statics
         /\ last' = Op(p, "set", s, k, v, Undefined, NoRet, NoError)
         /\ held' = Tracks(held, p, r.config)
    /\ UNCHANGED <<ui, disk, active>>

\* Mutant: a save that empties the cache once the file is written.
Save_clears_cache(p) ==
    /\ Step /\ Live(p)
    /\ IF IsHazo(p)
       THEN LET r == save(prov[p].config, FileAt(prov[p].filePath, disk)) IN
            /\ disk' = WriteBack(prov[p].filePath, disk, r.disk)
            /\ prov' = [prov EXCEPT ![p].config =
                           IF r.err = NoError THEN EmptyStore ELSE @]
            /\ last' = [IoOp(p, "save", r.err, r.io)
                          EXCEPT !.was = disk.lines, !.path = prov[p].filePath]
       ELSE /\ disk' = disk
            /\ prov' = [prov EXCEPT ![p].config = mock_save(@)]
            /\ last' = Op(p, "save", "", "", "", Undefined, NoRet, NoError)
    /\ UNCHANGED <<ui, active, ObjectStatics, held>>

Save(p) ==
    /\ Step /\ Live(p)
    /\ IF IsHazo(p)
       THEN LET r == save(prov[p].config, FileAt(prov[p].filePath, disk)) IN
            /\ disk' = WriteBack(prov[p].filePath, disk, r.disk)
            /\ prov' = prov
            /\ last' = [IoOp(p, "save", r.err, r.io)
                          EXCEPT !.was = disk.lines, !.path = prov[p].filePath]
       ELSE /\ disk' = disk
            /\ prov' = [prov EXCEPT ![p].config = mock_save(@)]
            /\ last' = Op(p, "save", "", "", "", Undefined, NoRet, NoError)
    /\ UNCHANGED <<ui, active, ObjectStatics, held>>

Refresh(p) ==
    /\ Step /\ Live(p)
    /\ IF IsHazo(p)
       THEN LET r == refresh(prov[p].config, FileAt(prov[p].filePath, disk)) IN
            /\ prov' = [prov EXCEPT ![p].config = r.config]
            /\ last' = [IoOp(p, "refresh", r.err, r.io) EXCEPT !.path = prov[p].filePath]
            /\ held' = IF readFileSync(disk).errno = "" /\ ~parse(disk.lines).threw
                       THEN Detached(held, p) ELSE held
       ELSE /\ prov' = [prov EXCEPT ![p].config = mock_refresh(@)]
            /\ last' = Op(p, "refresh", "", "", "", Undefined, NoRet, NoError)
            /\ held' = held
    /\ UNCHANGED <<ui, disk, active, ObjectStatics>>

\* reset(new_config?) of the MockConfigProvider
Reset(p) ==
    /\ Step /\ Live(p) /\ ~IsHazo(p)
    /\ \E given \in BOOLEAN, data \in Seeds :
         LET r == mock_reset(given, data) IN
         /\ given \/ data = EmptyStore
         /\ prov' = [prov EXCEPT ![p].config = r.config]
         /\ last' = [Op(p, "reset", "", "", "", Undefined, NoRet, NoError)
                       EXCEPT !.arg = [given |-> given, data |-> data,
                                       before |-> DOMAIN prov[p].config]]
         /\ held' = IF given
                    THEN Held(p, "", "argument", [t |-> "store", m |-> data, alias |-> r.alias])
                    ELSE Detached(held, p)
    /\ UNCHANGED <<ui, disk, active, ObjectStatics>>

(***************************************************************************)
(* The caller changes a map an accessor handed out.  The change reaches    *)
(* the provider's store exactly where the handed-out object shares storage *)
(* with it (held.alias).                                                   *)
(***************************************************************************)
MutValue == Str("9")
Mutations ==
    [kind : {"put", "del"}, s : {""}, k : {"x", "y"}]
      \cup [kind : {"putInner"}, s : Sections, k : {"x", "y"}]
      \cup [kind : {"delSection", "addSection"}, s : Sections, k : {""}]

Without(o, n) == [m \in DOMAIN o \ {n} |-> o[m]]

MapMut(m, mut) ==
    CASE mut.kind = "put" -> Assign(m, mut.k, MutValue)
      [] mut.kind = "del" -> Without(m, mut.k)
      [] OTHER -> m

StoreMut(st, mut) ==
    CASE mut.kind = "putInner" /\ HasOwn(st, mut.s) ->
            [st EXCEPT ![mut.s] = Assign(@, mut.k, MutValue)]
      [] mut.kind = "delSection" -> Without(st, mut.s)
      [] mut.kind = "addSection" -> Assign(st, mut.s, EmptyMap)
      [] OTHER -> st

MutApplies(h, mut) ==
    \/ h.t = "map" /\ mut.kind = "put"
    \/ h.t = "map" /\ mut.kind = "del" /\ HasOwn(h.m, mut.k)
    \/ h.t = "store" /\ mut.kind \in {"putInner", "delSection"} /\ HasOwn(h.m, mut.s)
    \/ h.t = "store" /\ mut.kind = "addSection" /\ ~HasOwn(h.m, mut.s)

\* The store after the caller's change to the handed-out object h.
Shared(c, h, mut) ==
    CASE h.t = "map" /\ <<"section", h.s>> \in h.alias /\ HasOwn(c, h.s) ->
            [c EXCEPT ![h.s] = MapMut(@, mut)]
      [] h.t = "store" /\ <<"store">> \in h.alias -> StoreMut(c, mut)
      [] h.t = "store" /\ mut.kind = "putInner" /\ <<"section", mut.s>> \in h.alias ->
            StoreMut(c, mut)
      [] OTHER -> c

MutateHeld ==
    /\ Step /\ held.t \in {"map", "store"}
    /\ \E mut \in Mutations :
         /\ MutApplies(held, mut)
         /\ held' = [held EXCEPT !.m = IF held.t = "map" THEN MapMut(@, mut)
                                       ELSE StoreMut(@, mut)]
         /\ prov' = [prov EXCEPT ![held.by].config = Shared(@, held, mut)]
         /\ last' = Op(held.by, "mutate", mut.s, mut.k, mut.kind, Undefined, NoRet, NoError)
    /\ UNCHANGED <<ui, disk, active, ObjectStatics>>

(***************************************************************************)
(* The environment: the file is removed, or its permissions change.        *)
(***************************************************************************)
EnvUnlink ==
    /\ Step /\ disk.exists /\ active \subseteq HazoIds
    /\ disk' = [disk EXCEPT !.exists = FALSE, !.lines = <<>>]
    /\ last' = Op("", "unlink", "", "", "", Undefined, NoRet, NoError)
    /\ UNCHANGED <<ui, prov, active, ObjectStatics, held>>

EnvChmod ==
    /\ Step /\ disk.exists /\ active \subseteq HazoIds
    /\ \E r \in BOOLEAN, w \in BOOLEAN :
         /\ <<r, w>> # <<disk.canRead, disk.canWrite>>
         /\ disk' = [disk EXCEPT !.canRead = r, !.canWrite = w]
    /\ last' = Op("", "chmod", "", "", "", Undefined, NoRet, NoError)
    /\ UNCHANGED <<ui, prov, active, ObjectStatics, held>>

Next ==
    \/ \E p \in AllIds : HazoConstruct(p)
    \/ \E p \in AllIds : MockConstruct(p)
    \/ \E p \in AllIds : Get(p)
    \/ \E p \in AllIds : GetSection(p)
    \/ \E p \in AllIds : GetAllSections(p)
    \/ \E p \in AllIds : GetFilePath(p)
    \/ \E p \in AllIds : Set(p)
    \/ \E p \in AllIds : Save(p)
    \/ \E p \in AllIds : Refresh(p)
    \/ \E p \in AllIds : Reset(p)
    \/ MutateHeld
    \/ EnvUnlink
    \/ EnvChmod

Spec == Init /\ [][Next]_vars

(***************************************************************************)
(* Two HazoConfig instances over the same file path.  A run starts when    *)
(* both are constructed (counted as its first step) and follows the calls  *)
(* that write: set, save, refresh, and the environment.  The reads change  *)
(* neither store nor file; their results are the operators get, getSection *)
(* and getAllSections of the state.                                        *)
(***************************************************************************)
Init2 ==
    /\ active = HazoIds
    /\ disk \in {File(f) : f \in InitFiles}
    /\ construct(disk).err = NoError
    /\ prov = [p \in AllIds |->
                 IF IsHazo(p)
                 THEN [live |-> TRUE, config |-> construct(disk).config,
                       filePath |-> resolve(DiskPath)]
                 ELSE Dead]
    /\ ObjectStatics = EmptyMap
    /\ last = [IoOp("h2", "construct", NoError, construct(disk).io)
                 EXCEPT !.path = resolve(DiskPath)]
    /\ held = NoHeld
    /\ steps = 1
    /\ ui = NoUi

Next2 ==
    \/ \E p \in HazoIds : Set(p)
    \/ \E p \in HazoIds : Save(p)
    \/ \E p \in HazoIds : Refresh(p)
    \/ EnvUnlink
    \/ EnvChmod

Spec2 == Init2 /\ [][Next2]_vars

(***************************************************************************)
(* A consumer drives a HazoConfig and a MockConfigProvider in lockstep:    *)
(* both start with the same store content and every call is made on both.  *)
(***************************************************************************)
Init3 ==
    /\ active = {"h1", MockId}
    /\ disk \in {File(f) : f \in InitFiles}
    /\ construct(disk).err = NoError
    /\ prov = [p \in AllIds |->
                 CASE p = "h1" -> [live |-> TRUE, config |-> construct(disk).config,
                                  filePath |-> resolve(DiskPath)]
                   [] p = MockId ->
                        [live |-> TRUE,
                         config |-> mock_construct(TRUE,
                                       getAllSections(construct(disk).config).m).config,
                         filePath |-> NoPath]
                   [] OTHER -> Dead]
    /\ ObjectStatics = EmptyMap
    /\ last = Op("", "init", "", "", "", Undefined, NoRet, NoError)
    /\ held = NoHeld
    /\ steps = 0
    /\ ui = NoUi

LockGet ==
    /\ Step
    /\ \E s \in Sections, k \in Keys :
         last' = [Op("h1", "get", s, k, "", get(prov["h1"].config, s, k), NoRet, NoError)
                    EXCEPT !.peer = [val |-> mock_get(prov[MockId].config, s, k),
                                     ret |-> NoRet]]
    /\ UNCHANGED <<ui, disk, prov, active, ObjectStatics, held>>

LockGetSection ==
    /\ Step
    /\ \E s \in Sections :
         last' = [Op("h1", "getSection", s, "", "", Undefined,
                     getSection(prov["h1"].config, s), NoError)
                    EXCEPT !.peer = [val |-> Undefined,
                                     ret |-> mock_getSection(prov[MockId].config, s)]]
    /\ UNCHANGED <<ui, disk, prov, active, ObjectStatics, held>>

LockGetAllSections ==
    /\ Step
    /\ last' = [Op("h1", "getAllSections", "", "", "", Undefined,
                   getAllSections(prov["h1"].config), NoError)
                  EXCEPT !.peer = [val |-> Undefined,
                                   ret |-> mock_getAllSections(prov[MockId].config)]]
    /\ UNCHANGED <<ui, disk, prov, active, ObjectStatics, held>>

\* set on the HazoConfig, then the same set on the MockConfigProvider; the
\* Object function's properties are the process's, so the second set finds
\* what the first left there and assigns the same value again.
LockSet ==
    /\ Step
    /\ \E s \in Sections, k \in Keys, v \in Values :
         LET r == set(prov["h1"].config, s, k, Str(v))
             q == mock_set(prov[MockId].config, s, k, Str(v)) IN
         /\ prov' = [prov EXCEPT !["h1"].config = r.config, ![MockId].config = q.config]
         /\ ObjectStatics' = IF r.statics # ObjectStatics THEN r.statics ELSE q.statics
         /\ last' = Op("h1", "set", s, k, v, Undefined, NoRet, NoError)
    /\ UNCHANGED <<ui, disk, active, held>>

Next3 == LockGet \/ LockGetSection \/ LockGetAllSections \/ LockSet

Spec3 == Init3 /\ [][Next3]_vars

(***************************************************************************)
(* The React components: a ConfigViewer and a ConfigEditor mounted over    *)
(* the same provider.  Each handler is one step; a provider call that      *)
(* throws ends the handler there, so the state setters after it do not     *)
(* run.                                                                    *)
(***************************************************************************)
TheProvider == CHOOSE p \in active : TRUE

\* What the user can type into a text input.
Typed == Values \cup {""}

\* A provider call a handler made.
Call(m, s, k, value) == [m |-> m, s |-> s, k |-> k, value |-> value]
CallSet(s, k, value) == Call("set", s, k, value)
CallGet(s, k) == Call("get", s, k, Undefined)
CallSave == Call("save", "", "", Undefined)
CallRefresh == Call("refresh", "", "", Undefined)
CallGetAllSections == Call("getAllSections", "", "", Undefined)

\* load_config of either component: both providers have getAllSections, so
\* the fallback over common section names is not taken;
\* Object.assign(all_sections, all) copies the own entries of the result.
load_config(p, c) ==
    IF IsHazo(p) THEN getAllSections(c).m ELSE mock_getAllSections(c).m

\* ConfigEditor.load_config: if (!selected_section && keys.length > 0)
\* set_selected_section(Object.keys(all_sections)[0]).  The store keeps no
\* insertion order, so the first key is any of its keys.
SelectedAfterLoad(sel, sections) ==
    IF sel = "" /\ DOMAIN sections # {} THEN DOMAIN sections ELSE {sel}

\* x || '' takes '' for a falsy x.
Falsy(x) == x \in {Undefined, Str(""), Null, Bool("false")}

ProviderGet(p, c, s, k) == IF IsHazo(p) THEN get(c, s, k) ELSE mock_get(c, s, k)
ProviderSet(p, c, s, k, value) ==
    IF IsHazo(p) THEN set(c, s, k, value) ELSE mock_set(c, s, k, value)
\* save() of the provider holding store c: the file after it and the error.
ProviderSave(p, c) ==
    IF IsHazo(p)
    THEN LET r == save(c, FileAt(prov[p].filePath, disk)) IN
         [config |-> c, disk |-> WriteBack(prov[p].filePath, disk, r.disk), err |-> r.err]
    ELSE [config |-> mock_save(c), disk |-> disk, err |-> NoError]
ProviderRefresh(p, c) ==
    IF IsHazo(p)
    THEN LET r == refresh(c, FileAt(prov[p].filePath, disk)) IN
         [config |-> r.config, err |-> r.err]
    ELSE [config |-> mock_refresh(c), err |-> NoError]

\* Both components mounted over provider p: the useEffect of each ran
\* load_config once.
Mounted(p, c, sel) ==
    [NoUi EXCEPT !.viewer.sections = load_config(p, c),
                 !.editor.sections = load_config(p, c),
                 !.editor.selected_section = sel]

Init4 ==
    /\ active \in {{"h1"}, {MockId}}
    /\ disk \in IF active = {MockId} THEN {NoFile} ELSE {File(f) : f \in InitFiles}
    /\ active = {"h1"} => construct(disk).err = NoError
    /\ \E seed \in Seeds :
         /\ active = {"h1"} => seed = EmptyStore
         /\ prov = [p \in AllIds |->
                      CASE p = "h1" /\ p \in active ->
                             [live |-> TRUE, config |-> construct(disk).config,
                              filePath |-> resolve(DiskPath)]
                        [] p = MockId /\ p \in active ->
                             [live |-> TRUE, config |-> mock_construct(TRUE, seed).config,
                              filePath |-> NoPath]
                        [] OTHER -> Dead]
    /\ ObjectStatics = EmptyMap
    /\ last = Op("", "init", "", "", "", Undefined, NoRet, NoError)
    /\ held = NoHeld
    /\ steps = 0
    /\ \E sel \in SelectedAfterLoad("", load_config(TheProvider, prov[TheProvider].config)) :
         ui = Mounted(TheProvider, prov[TheProvider].config, sel)

\* ConfigViewer.start_edit(section, key), from the Edit button of a
\* displayed entry
start_edit ==
    /\ Step
    /\ \E section \in DOMAIN ui.viewer.sections :
         \E key \in DOMAIN ui.viewer.sections[section] :
           LET p == TheProvider
               got == ProviderGet(p, prov[p].config, section, key)
               value == IF Falsy(got) THEN Str("") ELSE got IN
           /\ ui' = [ui EXCEPT !.viewer.editing =
                                   [on |-> TRUE, section |-> section, key |-> key],
                               !.viewer.edit_value = value]
           /\ last' = [Op(p, "start_edit", section, key, "", got, NoRet, NoError)
                         EXCEPT !.calls = <<CallGet(section, key)>>]
    /\ UNCHANGED <<disk, prov, active, ObjectStatics, held>>

\* onChange of the edit input: set_edit_value(e.target.value)
change_edit ==
    /\ Step /\ ui.viewer.editing.on
    /\ \E text \in Typed :
         /\ ui' = [ui EXCEPT !.viewer.edit_value = Str(text)]
         /\ last' = Op(TheProvider, "change_edit", "", "", text, Undefined, NoRet, NoError)
    /\ UNCHANGED <<disk, prov, active, ObjectStatics, held>>

\* ConfigViewer.cancel_edit
cancel_edit ==
    /\ Step /\ ui.viewer.editing.on
    /\ ui' = [ui EXCEPT !.viewer.editing = NoEditing, !.viewer.edit_value = Str("")]
    /\ last' = Op(TheProvider, "cancel_edit", "", "", "", Undefined, NoRet, NoError)
    /\ UNCHANGED <<disk, prov, active, ObjectStatics, held>>

\* Mutant: a save_edit that saves before it sets.
save_edit_saves_first ==
    /\ Step /\ ui.viewer.editing.on
    /\ LET p == TheProvider
           e == ui.viewer.editing
           sv == ProviderSave(p, prov[p].config)
           st == ProviderSet(p, sv.config, e.section, e.key, ui.viewer.edit_value) IN
       /\ disk' = sv.disk
       /\ IF sv.err = NoError
          THEN /\ prov' = [prov EXCEPT ![p].config = st.config]
               /\ ObjectStatics' = st.statics
               /\ ui' = [ui EXCEPT !.viewer.sections = load_config(p, st.config),
                                   !.viewer.editing = NoEditing,
                                   !.viewer.edit_value = Str(""),
                                   !.saved = TRUE]
               /\ last' = [Op(p, "save_edit", e.section, e.key, ui.viewer.edit_value.v,
                              Undefined, NoRet, NoError)
                             EXCEPT !.was = disk.lines,
                                    !.calls = <<CallSave,
                                                CallSet(e.section, e.key, ui.viewer.edit_value),
                                                CallGetAllSections>>]
          ELSE /\ prov' = prov
               /\ ObjectStatics' = ObjectStatics
               /\ ui' = [ui EXCEPT !.saved = TRUE]
               /\ last' = [Op(p, "save_edit", e.section, e.key, ui.viewer.edit_value.v,
                              Undefined, NoRet, sv.err)
                             EXCEPT !.was = disk.lines, !.calls = <<CallSave>>]
    /\ UNCHANGED <<active, held>>

\* ConfigViewer.save_edit: if (editing) { set; save; load_config;
\* set_editing(null); set_edit_value('') }
save_edit ==
    /\ Step /\ ui.viewer.editing.on
    /\ LET p == TheProvider
           e == ui.viewer.editing
           st == ProviderSet(p, prov[p].config, e.section, e.key, ui.viewer.edit_value)
           sv == ProviderSave(p, st.config) IN
       /\ prov' = [prov EXCEPT ![p].config = sv.config]
       /\ ObjectStatics' = st.statics
       /\ disk' = sv.disk
       /\ IF sv.err = NoError
          THEN /\ ui' = [ui EXCEPT !.viewer.sections = load_config(p, sv.config),
                                   !.viewer.editing = NoEditing,
                                   !.viewer.edit_value = Str(""),
                                   !.saved = TRUE]
               /\ last' = [Op(p, "save_edit", e.section, e.key, ui.viewer.edit_value.v,
                              Undefined, NoRet, NoError)
                             EXCEPT !.was = disk.lines,
                                    !.calls = <<CallSet(e.section, e.key, ui.viewer.edit_value),
                                                CallSave, CallGetAllSections>>]
          ELSE /\ ui' = [ui EXCEPT !.saved = TRUE]
               /\ last' = [Op(p, "save_edit", e.section, e.key, ui.viewer.edit_value.v,
                              Undefined, NoRet, sv.err)
                             EXCEPT !.was = disk.lines,
                                    !.calls = <<CallSet(e.section, e.key, ui.viewer.edit_value),
                                                CallSave>>]
    /\ UNCHANGED <<active, held>>

\* onClick of a section button of the ConfigEditor
select_section ==
    /\ Step
    /\ \E section_name \in DOMAIN ui.editor.sections :
         /\ ui' = [ui EXCEPT !.editor.selected_section = section_name]
         /\ last' = Op(TheProvider, "select_section", section_name, "", "", Undefined,
                       NoRet, NoError)
    /\ UNCHANGED <<disk, prov, active, ObjectStatics, held>>

\* onChange of the two inputs under Add New Key (shown when a section is
\* selected)
type_new_key ==
    /\ Step /\ ui.editor.selected_section # ""
    /\ \E text \in Keys \cup {""} :
         /\ ui' = [ui EXCEPT !.editor.new_key = text]
         /\ last' = Op(TheProvider, "type_new_key", "", text, "", Undefined, NoRet, NoError)
    /\ UNCHANGED <<disk, prov, active, ObjectStatics, held>>

type_new_value ==
    /\ Step /\ ui.editor.selected_section # ""
    /\ \E text \in Typed :
         /\ ui' = [ui EXCEPT !.editor.new_value = text]
         /\ last' = Op(TheProvider, "type_new_value", "", "", text, Undefined, NoRet, NoError)
    /\ UNCHANGED <<disk, prov, active, ObjectStatics, held>>

\* ConfigEditor.handle_add_key: if (selected_section && new_key && new_value)
\* { set; set_new_key(''); set_new_value(''); load_config }
handle_add_key ==
    /\ Step
    /\ ui.editor.selected_section # "" /\ ui.editor.new_key # "" /\ ui.editor.new_value # ""
    /\ LET p == TheProvider
           ed == ui.editor
           st == ProviderSet(p, prov[p].config, ed.selected_section, ed.new_key,
                             Str(ed.new_value)) IN
       /\ prov' = [prov EXCEPT ![p].config = st.config]
       /\ ObjectStatics' = st.statics
       /\ ui' = [ui EXCEPT !.editor.sections = load_config(p, st.config),
                           !.editor.new_key = "", !.editor.new_value = ""]
       /\ last' = [Op(p, "handle_add_key", ed.selected_section, ed.new_key, ed.new_value,
                      Undefined, NoRet, NoError)
                     EXCEPT !.calls = <<CallSet(ed.selected_section, ed.new_key,
                                                Str(ed.new_value)),
                                        CallGetAllSections>>]
    /\ UNCHANGED <<disk, active, held>>

\* Mutant: a handle_update_value that also saves.
handle_update_value_saves ==
    /\ Step
    /\ ui.editor.selected_section \in DOMAIN ui.editor.sections
    /\ \E key \in DOMAIN ui.editor.sections[ui.editor.selected_section], text \in Typed :
         LET p == TheProvider
             section == ui.editor.selected_section
             st == ProviderSet(p, prov[p].config, section, key, Str(text))
             sv == ProviderSave(p, st.config) IN
         /\ prov' = [prov EXCEPT ![p].config = sv.config]
         /\ ObjectStatics' = st.statics
         /\ disk' = sv.disk
         /\ ui' = [ui EXCEPT !.editor.sections = load_config(p, sv.config)]
         /\ last' = [Op(p, "handle_update_value", section, key, text, Undefined, NoRet,
                        NoError)
                       EXCEPT !.calls = <<CallSet(section, key, Str(text)), CallSave,
                                          CallGetAllSections>>]
    /\ UNCHANGED <<active, held>>

\* ConfigEditor.handle_update_value(selected_section, key, e.target.value),
\* from the input of a displayed entry of the selected section
handle_update_value ==
    /\ Step
    /\ ui.editor.selected_section \in DOMAIN ui.editor.sections
    /\ \E key \in DOMAIN ui.editor.sections[ui.editor.selected_section], text \in Typed :
         LET p == TheProvider
             section == ui.editor.selected_section
             st == ProviderSet(p, prov[p].config, section, key, Str(text)) IN
         /\ prov' = [prov EXCEPT ![p].config = st.config]
         /\ ObjectStatics' = st.statics
         /\ ui' = [ui EXCEPT !.editor.sections = load_config(p, st.config)]
         /\ last' = [Op(p, "handle_update_value", section, key, text, Undefined, NoRet,
                        NoError)
                       EXCEPT !.calls = <<CallSet(section, key, Str(text)),
                                          CallGetAllSections>>]
    /\ UNCHANGED <<disk, active, held>>

\* ConfigEditor.handle_save: save(); load_config()
handle_save ==
    /\ Step
    /\ LET p == TheProvider
           sv == ProviderSave(p, prov[p].config) IN
       /\ prov' = [prov EXCEPT ![p].config = sv.config]
       /\ disk' = sv.disk
       /\ IF sv.err = NoError
          THEN \E sel \in SelectedAfterLoad(ui.editor.selected_section,
                                            load_config(p, sv.config)) :
                 /\ ui' = [ui EXCEPT !.editor.sections = load_config(p, sv.config),
                                     !.editor.selected_section = sel,
                                     !.saved = TRUE]
                 /\ last' = [Op(p, "handle_save", "", "", "", Undefined, NoRet, NoError)
                               EXCEPT !.was = disk.lines,
                                      !.calls = <<CallSave, CallGetAllSections>>]
          ELSE /\ ui' = [ui EXCEPT !.saved = TRUE]
               /\ last' = [Op(p, "handle_save", "", "", "", Undefined, NoRet, sv.err)
                             EXCEPT !.was = disk.lines, !.calls = <<CallSave>>]
    /\ UNCHANGED <<active, ObjectStatics, held>>

\* ConfigEditor.handle_refresh: refresh(); load_config().  ret: the sections
\* the editor displayed before.
handle_refresh ==
    /\ Step
    /\ LET p == TheProvider
           rf == ProviderRefresh(p, prov[p].config)
           shown == [t |-> "store", m |-> ui.editor.sections, alias |-> {}] IN
       /\ prov' = [prov EXCEPT ![p].config = rf.config]
       /\ IF rf.err = NoError
          THEN \E sel \in SelectedAfterLoad(ui.editor.selected_section,
                                            load_config(p, rf.config)) :
                 /\ ui' = [ui EXCEPT !.editor.sections = load_config(p, rf.config),
                                     !.editor.selected_section = sel]
                 /\ last' = [Op(p, "handle_refresh", "", "", "", Undefined, shown, NoError)
                               EXCEPT !.calls = <<CallRefresh, CallGetAllSections>>]
          ELSE /\ ui' = ui
               /\ last' = [Op(p, "handle_refresh", "", "", "", Undefined, shown, rf.err)
                             EXCEPT !.calls = <<CallRefresh>>]
    /\ UNCHANGED <<disk, active, ObjectStatics, held>>

Next4 ==
    \/ start_edit
    \/ change_edit
    \/ cancel_edit
    \/ save_edit
    \/ select_section
    \/ type_new_key
    \/ type_new_value
    \/ handle_add_key
    \/ handle_update_value
    \/ handle_save
    \/ handle_refresh
    \/ EnvUnlink
    \/ EnvChmod

Spec4 == Init4 /\ [][Next4]_vars

(***************************************************************************)
(* Diagnostics: two HazoConfig instances over the same file, h1            *)
(* constructed with a logger and h2 without, every call made on h2 and     *)
(* then on h1.                                                             *)
(***************************************************************************)

\* Mutant: this.logger = options.logger
logger_without_default(given) == IF given THEN "options.logger" ELSE "undefined"

\* this.logger = options.logger || no_op_logger
logger(given) == IF given THEN "options.logger" ELSE "no_op_logger"

LoggerOf(p) == logger(p = "h1")

\* A call this.logger.info(...) or this.logger.error(...): the method, the
\* operation, and what the message and its data name.
LogInfo(op, s, k, sections) ==
    [level |-> "info", op |-> op, s |-> s, k |-> k, sections |-> sections]
LogError(op) == [level |-> "error", op |-> op, s |-> "", k |-> "", sections |-> {}]

\* A method call on undefined
TypeError == [code |-> "TypeError", fields |-> {"message"}]

\* The logger calls of an operation that raised err (NoError: returned) and
\* made the calls log on a logger object: every path of set, save, refresh
\* and the constructor reaches a logger call after its effects on cache and
\* file, and a call on a missing logger throws a TypeError there (in save
\* and refresh, from the logger.error call of the catch block).
WithLogger(lg, err, log) ==
    IF lg = "undefined" THEN [err |-> TypeError, log |-> <<>>]
    ELSE [err |-> err, log |-> log]

\* logger.info(`Set config value: ${section}.${key}`, { value })
set_log(section, key) == <<LogInfo("set", section, key, {})>>
\* logger.info(`Configuration saved to: ...`), or logger.error in the catch
save_log(r) ==
    IF r.err = NoError THEN <<LogInfo("save", "", "", {})>> ELSE <<LogError("save")>>
\* logger.info(`Configuration refreshed from: ...`, { sections:
\* Object.keys(this.config) }), or logger.error in either branch of the catch
refresh_log(r) ==
    IF r.err = NoError THEN <<LogInfo("refresh", "", "", DOMAIN r.config)>>
    ELSE <<LogError("refresh")>>
\* The constructor: logger.error when the file does not exist, otherwise the
\* calls of its refresh.
construct_log(d, r) ==
    IF ~d.exists THEN <<LogError("construct")>> ELSE refresh_log(r)

Init5 ==
    /\ InitCommon
    /\ active = HazoIds
    /\ disk \in {File(f) : f \in InitFiles} \cup {NoFile}

\* new HazoConfig({ filePath }) and new HazoConfig({ filePath, logger })
LogConstruct ==
    /\ Step /\ \A p \in HazoIds : ~prov[p].live
    /\ LET r == construct(disk)
           out(p) == WithLogger(LoggerOf(p), r.err, construct_log(disk, r)) IN
       /\ prov' = [p \in AllIds |->
                     IF IsHazo(p) /\ out(p).err = NoError
                     THEN [live |-> TRUE, config |-> r.config, filePath |-> resolve(DiskPath)]
                     ELSE Dead]
       /\ last' = [IoOp("h1", "construct", out("h1").err, r.io)
                     EXCEPT !.log = out("h1").log,
                            !.twin = [err |-> out("h2").err, log |-> out("h2").log,
                                      disk |-> disk]]
    /\ UNCHANGED <<disk, active, ObjectStatics, held, ui>>

LogSet ==
    /\ Step /\ \A p \in HazoIds : Live(p)
    /\ \E s \in Sections, k \in Keys, v \in Values :
         LET q == set(prov["h2"].config, s, k, Str(v))
             r == set(prov["h1"].config, s, k, Str(v))
             out(p) == WithLogger(LoggerOf(p), NoError, set_log(s, k)) IN
         /\ prov' = [prov EXCEPT !["h1"].config = r.config, !["h2"].config = q.config]
         /\ ObjectStatics' = IF q.statics # ObjectStatics THEN q.statics ELSE r.statics
         /\ last' = [Op("h1", "set", s, k, v, Undefined, NoRet, out("h1").err)
                       EXCEPT !.log = out("h1").log,
                              !.twin = [err |-> out("h2").err, log |-> out("h2").log,
                                        disk |-> disk]]
    /\ UNCHANGED <<disk, active, held, ui>>

\* h2.save(), then h1.save() on the file h2 left
LogSave ==
    /\ Step /\ \A p \in HazoIds : Live(p)
    /\ LET q == save(prov["h2"].config, disk)
           r == save(prov["h1"].config, q.disk)
           outq == WithLogger(LoggerOf("h2"), q.err, save_log(q))
           outr == WithLogger(LoggerOf("h1"), r.err, save_log(r)) IN
       /\ disk' = r.disk
       /\ last' = [IoOp("h1", "save", outr.err, r.io)
                     EXCEPT !.was = disk.lines, !.log = outr.log,
                            !.twin = [err |-> outq.err, log |-> outq.log, disk |-> q.disk]]
    /\ UNCHANGED <<prov, active, ObjectStatics, held, ui>>

LogRefresh ==
    /\ Step /\ \A p \in HazoIds : Live(p)
    /\ LET q == refresh(prov["h2"].config, disk)
           r == refresh(prov["h1"].config, disk)
           outq == WithLogger(LoggerOf("h2"), q.err, refresh_log(q))
           outr == WithLogger(LoggerOf("h1"), r.err, refresh_log(r)) IN
       /\ prov' = [prov EXCEPT !["h1"].config = r.config, !["h2"].config = q.config]
       /\ last' = [IoOp("h1", "refresh", outr.err, r.io)
                     EXCEPT !.log = outr.log,
                            !.twin = [err |-> outq.err, log |-> outq.log, disk |-> disk]]
    /\ UNCHANGED <<disk, active, ObjectStatics, held, ui>>

Next5 == LogConstruct \/ LogSet \/ LogSave \/ LogRefresh \/ EnvUnlink \/ EnvChmod

Spec5 == Init5 /\ [][Next5]_vars

(***************************************************************************)
(* Properties                                                              *)
(***************************************************************************)
ConfigOf(p) == prov[p].config
ProvGet(p, s, k) == IF IsHazo(p) THEN get(ConfigOf(p), s, k) ELSE mock_get(ConfigOf(p), s, k)
ProvGetSection(p, s) ==
    IF IsHazo(p) THEN getSection(ConfigOf(p), s) ELSE mock_getSection(ConfigOf(p), s)
ProvGetAll(p) ==
    IF IsHazo(p) THEN getAllSections(ConfigOf(p)) ELSE mock_getAllSections(ConfigOf(p))
ReadErrorCode == "HAZO_CONFIG_READ_ERROR"

\* C1: read-your-writes.  In the state a set(s, k, v) leaves, on either
\* provider, get(s, k) returns v.
C1_ReadYourWrites ==
    last.op = "set" => ProvGet(last.by, last.s, last.k) = Str(last.v)

\* C2: round trip of the persistent provider.  After a successful save(), a
\* fresh HazoConfig over the same path constructs without error and its
\* getAllSections() equals the saving provider's.
C2_RoundTrip ==
    (last.op = "save" /\ IsHazo(last.by) /\ last.err = NoError) =>
        LET fresh == construct(disk) IN
        /\ fresh.err = NoError
        /\ fresh.live
        /\ getAllSections(fresh.config).m = getAllSections(ConfigOf(last.by)).m

\* The value the on-disk file holds for (s, k): the codec's reading of the
\* key = value line under the header [s]; not-found when there is none.
FileValue(d, s, k) ==
    LET parsed == parse(d.lines) IN
    IF /\ s \in DOMAIN parsed.val
       /\ parsed.val[s].t = "object"
       /\ k \in DOMAIN parsed.val[s].own
    THEN String(parsed.val[s].own[k])
    ELSE Undefined

\* C3: in the state a successful refresh() leaves, for every section s and
\* every key k that set can store, get(s, k) is the value the on-disk file
\* holds for (s, k), and not-found when the file has no such entry,
\* whatever set calls preceded.
C3_RefreshDiscards ==
    (last.op = "refresh" /\ IsHazo(last.by) /\ last.err = NoError) =>
        \A s \in Sections, k \in Keys \ {"__proto__"} :
            get(ConfigOf(last.by), s, k) = FileValue(disk, s, k)

\* C4: constructing a HazoConfig while the file does not exist fails with
\* FILE_NOT_FOUND, yields no instance, reads nothing and leaves the file
\* system as it was.
C4_ConstructMissingFile ==
    [][\A p \in HazoIds :
          (HazoConstruct(p) /\ ~disk.exists) =>
              /\ last'.err.code = "HAZO_CONFIG_FILE_NOT_FOUND"
              /\ ~prov'[p].live
              /\ ~Called(last'.io, "readFileSync")
              /\ ~Called(last'.io, "writeFileSync")
              /\ disk' = disk]_vars

C4_Witness ==
    /\ last.op = "construct" /\ IsHazo(last.by)
    /\ ~disk.exists
    /\ last.err = FileNotFoundError
    /\ ~prov[last.by].live

\* C5: a get(s, k) whose section is not in the store, or whose section has
\* no key k, returns the not-found result (undefined) on either provider.
C5_GetAbsentIsNotFound ==
    (/\ last.op = "get"
     /\ \/ ~HasOwn(ConfigOf(last.by), last.s)
        \/ ~HasOwn(ConfigOf(last.by)[last.s], last.k)) =>
        last.val = Undefined

\* C6: a change the caller makes to a map returned by getSection or
\* getAllSections changes no result of get, getSection or getAllSections.
C6_ReturnedMapsAreCopies ==
    [][MutateHeld =>
          \A p \in active :
              /\ \A s \in Sections, k \in Keys : ProvGet(p, s, k)' = ProvGet(p, s, k)
              /\ \A s \in Sections : ProvGetSection(p, s)'.m = ProvGetSection(p, s).m
              /\ ProvGetAll(p)'.m = ProvGetAll(p).m]_vars

C6_Witness ==
    /\ last.op = "mutate"
    /\ \/ held.t = "map" /\ held.m # ProvGetSection(held.by, held.s).m
       \/ held.t = "store" /\ held.m # ProvGetAll(held.by).m

\* C7: getSection(s) returns not-found exactly when section s is absent
\* from the store, and otherwise a map equal to the section's key/value
\* pairs (the empty map for a section with zero keys).
C7_GetSectionNotFoundIffAbsent ==
    last.op = "getSection" =>
        /\ last.ret.t = "undefined" <=> ~HasOwn(ConfigOf(last.by), last.s)
        /\ HasOwn(ConfigOf(last.by), last.s) =>
              last.ret.t = "map" /\ last.ret.m = ConfigOf(last.by)[last.s]

\* C8: a save() whose write fails raises WRITE_ERROR and leaves the cache
\* as it was.
C8_FailedSaveKeepsCache ==
    [][\A p \in HazoIds :
          (Save(p) /\ ~disk.canWrite) =>
              /\ last'.err.code = "HAZO_CONFIG_WRITE_ERROR"
              /\ getAllSections(prov'[p].config).m = getAllSections(prov[p].config).m]_vars

C8_Witness ==
    /\ last.op = "save" /\ IsHazo(last.by)
    /\ ~disk.canWrite
    /\ last.err = WriteError
    /\ ConfigOf(last.by) # EmptyStore

\* C9: a refresh() whose read fails although the file exists fails with
\* READ_ERROR.
C9_UnreadableIsReadError ==
    (/\ last.op = "refresh" /\ IsHazo(last.by)
     /\ disk.exists /\ ~disk.canRead) =>
        last.err.code = ReadErrorCode

\* C10: a refresh() issued after the file was removed fails with
\* FILE_NOT_FOUND and installs no cache: the cache is the one held before.
C10_RefreshAfterRemoval ==
    [][\A p \in HazoIds :
          (Refresh(p) /\ ~disk.exists) =>
              /\ last'.err.code = "HAZO_CONFIG_FILE_NOT_FOUND"
              /\ prov'[p].config = prov[p].config]_vars

C10_Witness ==
    /\ last.op = "refresh" /\ IsHazo(last.by)
    /\ ~disk.exists
    /\ last.err = FileNotFoundError
    /\ ConfigOf(last.by) # EmptyStore

\* The file can be read but the load cannot complete: ini.parse throws, or
\* the codec hands back a value the conversion loop cannot take.
Uninterpretable(d) ==
    /\ readFileSync(d).errno = ""
    /\ \/ parse(d.lines).threw
       \/ ConvertFrom(parse(d.lines), 1, EmptyStore).threw

\* C11: a refresh() (also the one the constructor runs) that reads the file
\* but cannot interpret its content fails with PARSE_ERROR raised to the
\* caller; a constructor so failing yields no instance.
C11_UninterpretableIsParseError ==
    [][\A p \in HazoIds :
          ((Refresh(p) \/ HazoConstruct(p)) /\ Uninterpretable(disk)) =>
              /\ last'.err.code = "HAZO_CONFIG_PARSE_ERROR"
              /\ HazoConstruct(p) => ~prov'[p].live]_vars

C11_Witness ==
    /\ last.op \in {"refresh", "construct"} /\ IsHazo(last.by)
    /\ readFileSync(disk).errno = ""
    /\ parse(disk.lines).threw
    /\ last.err = ParseError

\* The fields the claim says every error carries: kind, message, file path,
\* cause (HazoConfigError: code, message, filePath, originalError).
ErrorFields == {"code", "message", "filePath", "originalError"}

\* C12: every error the persistent provider raises (from the constructor,
\* refresh or save) carries a kind identifier, a message, the file path as a
\* field, and the underlying cause.
C12_ErrorsCarryFourFields ==
    (IsHazo(last.by) /\ last.err # NoError) => ErrorFields \subseteq last.err.fields

\* C13: in the state a reset leaves, the MockConfigProvider's store is
\* empty (getAllSections() is the empty map) when reset had no argument, and
\* equals the argument exactly when it had one: no section the store held
\* before the call and the argument lacks is left.
C13_ResetReplacesStore ==
    (last.op = "reset" /\ last.by = MockId) =>
        /\ mock_getAllSections(ConfigOf(MockId)).m =
              (IF last.arg.given THEN last.arg.data ELSE EmptyStore)
        /\ \A s \in last.arg.before :
              (~last.arg.given \/ ~HasOwn(last.arg.data, s)) => ~HasOwn(ConfigOf(MockId), s)

C13_Witness ==
    /\ last.op = "reset" /\ last.by = MockId
    /\ last.arg.given /\ last.arg.data # EmptyStore
    /\ last.arg.before \ DOMAIN last.arg.data # {}
    /\ mock_getAllSections(ConfigOf(MockId)).m = last.arg.data

\* C14: the MockConfigProvider shares nothing with the data d it was
\* constructed or reset with: a change the caller makes to d changes no
\* result of get, getSection or getAllSections, and a set on the provider
\* does not change d.
C14_NoAliasOfCallerData ==
    [][(held.from = "argument" /\ held.by = MockId) =>
          /\ MutateHeld =>
                /\ \A s \in Sections, k \in Keys :
                      mock_get(ConfigOf(MockId), s, k)' = mock_get(ConfigOf(MockId), s, k)
                /\ \A s \in Sections : mock_getSection(ConfigOf(MockId), s)'.m
                                          = mock_getSection(ConfigOf(MockId), s).m
                /\ mock_getAllSections(ConfigOf(MockId))'.m
                      = mock_getAllSections(ConfigOf(MockId)).m
          /\ Set(MockId) => held'.m = held.m]_vars

C14_Witness ==
    /\ held.from = "argument" /\ held.by = MockId
    /\ last.op = "mutate"
    /\ held.m # mock_getAllSections(ConfigOf(MockId)).m

\* C15: save() and refresh() of the MockConfigProvider raise nothing and
\* leave the store as it was, so every get returns after them what it
\* returned before.
C15_MockSaveRefreshNoOp ==
    [][(Save(MockId) \/ Refresh(MockId)) =>
          /\ last'.err = NoError
          /\ ConfigOf(MockId)' = ConfigOf(MockId)
          /\ \A s \in Sections, k \in Keys :
                mock_get(ConfigOf(MockId), s, k)' = mock_get(ConfigOf(MockId), s, k)]_vars

C15_Witness ==
    /\ last.op \in {"save", "refresh"} /\ last.by = MockId
    /\ last.err = NoError
    /\ \E s \in Sections, k \in Keys, v \in Values :
          /\ mock_get(ConfigOf(MockId), s, k) = Str(v)
          /\ \A d \in Seeds : ~(HasOwn(d, s) /\ HasOwn(d[s], k) /\ d[s][k] = Str(v))

\* C16: a set on the persistent provider changes the cache alone: the file
\* is as it was, so a HazoConfig constructed over the same path afterwards
\* loads the store it would have loaded before the set.
C16_SetLeavesFile ==
    [][\A p \in HazoIds :
          Set(p) =>
              /\ disk' = disk
              /\ getAllSections(construct(disk').config).m
                    = getAllSections(construct(disk).config).m]_vars

C16_Witness ==
    /\ last.op = "set" /\ IsHazo(last.by)
    /\ get(ConfigOf(last.by), last.s, last.k) = Str(last.v)
    /\ construct(disk).err = NoError
    /\ LET fresh == construct(disk).config IN
         ~(HasOwn(fresh, last.s) /\ HasOwn(fresh[last.s], last.k))

\* Every result the accessors of instance p can return.
Results(p) ==
    [get |-> [s \in Sections, k \in Keys |-> get(ConfigOf(p), s, k)],
     getSection |-> [s \in Sections |-> getSection(ConfigOf(p), s).m],
     getAllSections |-> getAllSections(ConfigOf(p)).m]

\* C17: of two HazoConfig instances over the same path, the results of
\* B's get, getSection and getAllSections change only by B's own set or B's
\* own refresh: no set and no save of the other instance changes them.
C17_IndependentCaches ==
    [][\A b \in HazoIds :
          (last'.by # b \/ last'.op \notin {"set", "refresh"}) =>
              Results(b)' = Results(b)]_vars

LinesOf(lines) == {lines[i] : i \in 1..Len(lines)}

\* C18: last save wins.  In the state a successful save() of one of two
\* instances leaves, the file holds the serialization of the saver's cache
\* and nothing else: a line the file held before (from the other instance's
\* save) that the saver's serialization lacks is no longer in the file.
C18_LastSaveWins ==
    (last.op = "save" /\ IsHazo(last.by) /\ last.err = NoError) =>
        /\ disk.exists
        /\ disk.lines = stringify(ConfigOf(last.by))
        /\ \A ln \in LinesOf(last.was) \ LinesOf(stringify(ConfigOf(last.by))) :
              ln \notin LinesOf(disk.lines)

\* The other instance's save wrote the file before, with an entry the
\* saver's cache lacks.
C18_Witness ==
    /\ last.op = "save" /\ IsHazo(last.by) /\ last.err = NoError
    /\ \E a \in HazoIds \ {last.by} :
          /\ last.was = stringify(ConfigOf(a))
          /\ ConfigOf(a) # ConfigOf(last.by)
    /\ \E ln \in LinesOf(last.was) :
          ln.kind = "kv" /\ ln \notin LinesOf(disk.lines)

\* set(s, k, v) of provider p on store c.
ProvSet(p, c, s, k, v) ==
    IF IsHazo(p) THEN set(c, s, k, Str(v)) ELSE mock_set(c, s, k, Str(v))

\* The last set, applied once more to the state it left.
SetAgain == ProvSet(last.by, ConfigOf(last.by), last.s, last.k, last.v)

\* C19: on either provider a set(s, k, v) creates section s if absent, makes
\* v the value of (s, k), leaves every other entry of the store as it was,
\* and a second set(s, k, v) changes nothing more.
C19_SetIsIdempotentUpsert ==
    [][\A p \in AllIds :
          Set(p) =>
              LET old == ConfigOf(p)
                  new == ConfigOf(p)'
                  s == last'.s
                  k == last'.k
                  v == last'.v
              IN /\ HasOwn(new, s)
                 /\ HasOwn(new[s], k)
                 /\ new[s][k] = Str(v)
                 /\ DOMAIN new = DOMAIN old \cup {s}
                 /\ \A s2 \in DOMAIN old \ {s} : new[s2] = old[s2]
                 /\ HasOwn(old, s) =>
                       /\ DOMAIN new[s] = DOMAIN old[s] \cup {k}
                       /\ \A k2 \in DOMAIN old[s] \ {k} : new[s][k2] = old[s][k2]
                 /\ ~HasOwn(old, s) => DOMAIN new[s] = {k}
                 /\ SetAgain'.config = new
                 /\ SetAgain'.statics = ObjectStatics']_vars

IsString(x) == x.t = "string"

\* C20: every value a HazoConfig holds in its cache is a string, whatever
\* the codec produced for it.
C20_CacheHoldsStrings ==
    \A p \in HazoIds :
        \A s \in DOMAIN ConfigOf(p) :
            \A k \in DOMAIN ConfigOf(p)[s] : IsString(ConfigOf(p)[s][k])

\* The codec produced a boolean for a key and the cache holds its text.
C20_Witness ==
    /\ last.op \in {"construct", "refresh"} /\ IsHazo(last.by) /\ last.err = NoError
    /\ \E s \in DOMAIN ConfigOf(last.by) : \E k \in DOMAIN ConfigOf(last.by)[s] :
          /\ parse(disk.lines).val[s].own[k] = Bool("true")
          /\ ConfigOf(last.by)[s][k] = Str("true")

\* C21: the path of a HazoConfig is fixed at construction: getFilePath()
\* returns the same resolved absolute path after every call, successful or
\* failed, and every save and refresh gives that path to its fs calls.
C21_FilePathFixed ==
    [][\A p \in HazoIds :
          /\ prov[p].live =>
                /\ prov'[p].live
                /\ getFilePath(prov'[p]) = getFilePath(prov[p])
          /\ prov'[p].live => getFilePath(prov'[p]).abs
          /\ (last'.by = p /\ last'.op \in {"save", "refresh", "getFilePath"}) =>
                last'.path = getFilePath(prov[p])]_vars

\* A failed refresh or save, and the path is the one resolved at construction.
C21_Witness ==
    /\ last.op \in {"save", "refresh"} /\ IsHazo(last.by) /\ last.err # NoError
    /\ prov[last.by].live
    /\ getFilePath(prov[last.by]) = DiskPath
    /\ last.path = DiskPath

\* The store refresh() builds from a file it can load completely.
FreshlyBuilt(d) == ConvertFrom(parse(d.lines), 1, EmptyStore).config

MockResults ==
    [get |-> [s \in Sections, k \in Keys |-> mock_get(ConfigOf(MockId), s, k)],
     getSection |-> [s \in Sections |-> mock_getSection(ConfigOf(MockId), s).m],
     getAllSections |-> mock_getAllSections(ConfigOf(MockId)).m]

\* C23: driven in lockstep from the same store content by get, getSection,
\* set and getAllSections calls, a HazoConfig and a MockConfigProvider return
\* the same result at every call, would return the same result for every
\* further call, and hold equal stores.
C23_ProvidersEquivalent ==
    /\ last.peer.val = last.val
    /\ last.peer.ret.t = last.ret.t
    /\ last.peer.ret.m = last.ret.m
    /\ MockResults = Results("h1")
    /\ ConfigOf(MockId) = ConfigOf("h1")

\* Both returned a value written by an earlier set on both.
C23_Witness ==
    /\ last.op = "get" /\ last.peer # NoPeer
    /\ last.val \in {Str(v) : v \in Values}
    /\ last.peer.val = last.val
    /\ ~(/\ HasOwn(FreshlyBuilt(disk), last.s)
         /\ HasOwn(FreshlyBuilt(disk)[last.s], last.k)
         /\ FreshlyBuilt(disk)[last.s][last.k] = last.val)

\* The top-level entries of the codec's result for file d that are nested
\* mappings, each leaf as the string of its text.
MappingsOf(d) ==
    LET parsed == parse(d.lines) IN
    [a \in {b \in DOMAIN parsed.val : parsed.val[b].t = "object"} |->
        [k \in DOMAIN parsed.val[a].own |-> Str(parsed.val[a].own[k].v)]]

ScalarsOf(d) ==
    LET parsed == parse(d.lines) IN {b \in DOMAIN parsed.val : parsed.val[b].t = "scalar"}

CountOf(io, name) == Cardinality({i \in 1..Len(io) : io[i] = name})

\* Whether a load of file d fails: the file is missing, unreadable, or its
\* content is one the parse or the conversion throws on.
LoadFails(d) ==
    \/ ~d.exists
    \/ readFileSync(d).errno # ""
    \/ parse(d.lines).threw
    \/ \E a \in DOMAIN parse(d.lines).val : DOMAIN parse(d.lines).val[a].kids # {}

\* C25: in the state new HazoConfig leaves, either it returned normally,
\* having read the file exactly once, and getAllSections() is the
\* string-coerced two-level parse of the file; or the load failed, the
\* constructor raised the error, and there is no instance.
C25_ConstructLoadsOnce ==
    (last.op = "construct" /\ IsHazo(last.by)) =>
        /\ (last.err = NoError) = ~LoadFails(disk)
        /\ (last.err = NoError) = prov[last.by].live
        /\ last.err = NoError =>
              /\ CountOf(last.io, "readFileSync") = 1
              /\ ProvGetAll(last.by).m = MappingsOf(disk)

C25_Witness ==
    /\ last.op = "construct" /\ IsHazo(last.by) /\ last.err = NoError
    /\ last.io = <<"existsSync", "readFileSync">>
    /\ \E a \in DOMAIN ProvGetAll(last.by).m : DOMAIN ProvGetAll(last.by).m[a] # {}

\* C26: get, getSection, getAllSections and getFilePath leave the cache and
\* the file as they were, and a successful save() of the persistent provider
\* leaves the cache as it was: getAllSections() returns the same store
\* before and after each of them.
C26_ReadsAndSaveKeepCache ==
    [][\A p \in AllIds :
         /\ (Get(p) \/ GetSection(p) \/ GetAllSections(p) \/ GetFilePath(p)) =>
               /\ prov'[p].config = prov[p].config
               /\ disk' = disk
               /\ ProvGetAll(p)'.m = ProvGetAll(p).m
         /\ (Save(p) /\ IsHazo(p) /\ last'.err = NoError) =>
               /\ prov'[p].config = prov[p].config
               /\ ProvGetAll(p)'.m = ProvGetAll(p).m]_vars

C26_Witness ==
    /\ last.op = "save" /\ IsHazo(last.by) /\ last.err = NoError
    /\ disk.lines # last.was
    /\ \E a \in DOMAIN ConfigOf(last.by) : DOMAIN ConfigOf(last.by)[a] # {}

\* A file of bracketed one-part section headers, each followed by at least
\* one key = value line: no line before the first header, no "__proto__" key.
WellFormed(lines) ==
    /\ lines # <<>>
    /\ lines[1].kind = "section"
    /\ \A i \in 1..Len(lines) :
          /\ lines[i].kind = "section" =>
                /\ Len(lines[i].path) = 1
                /\ i < Len(lines) /\ lines[i + 1].kind = "kv"
          /\ lines[i].kind = "kv" => lines[i].key # "__proto__"

\* C27: load-then-save preserves sections.  In the state a successful
\* save() leaves, when the file before it was well-formed and the cache
\* is the store loaded from that file, the file decodes to the same
\* section -> key -> value mapping as before, and a refresh() from here
\* succeeds and leaves the cache as it is.
C27_LoadThenSavePreserves ==
    (/\ last.op = "save" /\ IsHazo(last.by) /\ last.err = NoError
     /\ WellFormed(last.was)
     /\ ConfigOf(last.by) = FreshlyBuilt(File(last.was))) =>
        /\ MappingsOf(disk) = MappingsOf(File(last.was))
        /\ refresh(ConfigOf(last.by), disk).err = NoError
        /\ refresh(ConfigOf(last.by), disk).config = ConfigOf(last.by)

\* The names of the provider methods a handler called, in order.
Methods(calls) == [i \in 1..Len(calls) |-> calls[i].m]

\* C28: save_edit with an edit in progress calls set(editing.section,
\* editing.key, edit_value) and then save(); when neither throws, the
\* viewer then displays the provider's getAllSections() and no edit is in
\* progress.  cancel_edit ends the edit, calls no provider method and
\* leaves provider and file as they were.
C28_SaveEditSetsThenSaves ==
    [][/\ save_edit =>
            /\ Len(last'.calls) >= 2
            /\ last'.calls[1] = CallSet(ui.viewer.editing.section, ui.viewer.editing.key,
                                        ui.viewer.edit_value)
            /\ last'.calls[2] = CallSave
            /\ last'.err = NoError =>
                  /\ Methods(last'.calls) = <<"set", "save", "getAllSections">>
                  /\ ui'.viewer.sections = ProvGetAll(TheProvider)'.m
                  /\ ui'.viewer.editing = NoEditing
       /\ cancel_edit =>
            /\ ui'.viewer.editing = NoEditing
            /\ last'.calls = <<>>
            /\ prov' = prov /\ disk' = disk /\ ObjectStatics' = ObjectStatics]_vars

\* A save_edit on the persistent provider that changed the displayed value.
C28_Witness ==
    /\ last.op = "save_edit" /\ IsHazo(last.by) /\ last.err = NoError
    /\ ~ui.viewer.editing.on
    /\ HasOwn(ui.viewer.sections, last.s)
    /\ HasOwn(ui.viewer.sections[last.s], last.k)
    /\ ui.viewer.sections[last.s][last.k] = Str(last.v)
    /\ FileValue(File(last.was), last.s, last.k) # Str(last.v)
    /\ last.v \in Values

\* C29: handle_update_value and handle_add_key call set and never save, and
\* leave the file as it is; the file changes only in handle_save (or the
\* viewer's save_edit).  handle_refresh calls refresh() first and, when it
\* does not throw, reloads: the editor then displays the sections the file
\* holds (for the MockConfigProvider, the store as it is).
C29_EditorSetsWithoutSaving ==
    [][/\ (handle_update_value \/ handle_add_key) =>
            /\ Methods(last'.calls) = <<"set", "getAllSections">>
            /\ disk' = disk
       /\ disk' # disk => (handle_save \/ save_edit \/ EnvUnlink \/ EnvChmod)
       /\ handle_refresh =>
            /\ Len(last'.calls) >= 1 /\ last'.calls[1] = CallRefresh
            /\ disk' = disk
            /\ last'.err = NoError =>
                  /\ Methods(last'.calls) = <<"refresh", "getAllSections">>
                  /\ ui'.editor.sections = ProvGetAll(TheProvider)'.m
                  /\ IsHazo(TheProvider) => ui'.editor.sections = MappingsOf(disk)]_vars

\* An unsaved edit made in the editor is displayed, then handle_refresh
\* brings the display back to the file's sections.
C29_Witness ==
    /\ last.op = "handle_refresh" /\ IsHazo(last.by) /\ last.err = NoError
    /\ ~ui.saved
    /\ last.ret.m # ui.editor.sections
    /\ ui.editor.sections = MappingsOf(disk)
    /\ ui.editor.sections # EmptyStore

LoggedOps == {"construct", "set", "save", "refresh"}

\* C30: a set, save or refresh of the HazoConfig that returns has made
\* exactly one logger call, an info (set's naming the section and key,
\* refresh's listing the sections now in the cache); a construction, save
\* or refresh that raises has made exactly one, an error.  The instance
\* constructed without a logger makes the same calls, raises the same
\* error, and leaves the same cache and the same file.
C30_OneDiagnosticPerOperation ==
    (last.op \in LoggedOps) =>
        /\ Len(last.log) = 1
        /\ last.log[1].level = IF last.err = NoError THEN "info" ELSE "error"
        /\ (last.op = "set") =>
              /\ last.err = NoError
              /\ last.log[1].s = last.s /\ last.log[1].k = last.k
        /\ (last.op \in {"refresh", "construct"} /\ last.err = NoError) =>
              last.log[1].sections = DOMAIN ConfigOf("h1")
        /\ last.twin.log = last.log
        /\ last.twin.err = last.err
        /\ prov["h2"] = prov["h1"]
        /\ last.twin.disk = disk

\* A refresh that fails on both instances, each keeping a cache with
\* entries: one error call each.
C30_Witness ==
    /\ last.op = "refresh" /\ last.err # NoError
    /\ last.log = <<LogError("refresh")>>
    /\ last.twin.log = <<LogError("refresh")>>
    /\ \E s \in DOMAIN ConfigOf("h2") : \E k \in DOMAIN ConfigOf("h2")[s] :
          ConfigOf("h2")[s][k] = Str("2")

=============================================================================
